---- MODULE Spec2Model ----
(***************************************************************************)
(* A model of the node editor of features/modals/NodeModal/index.tsx:      *)
(* getValueAtPath (resolve), setValueAtPath (write), the JSON text         *)
(* conversions they are used with, and the Viewing/Editing session of the  *)
(* NodeModal component.                                                    *)
(*                                                                         *)
(* JavaScript values are tagged records.  Containers live in a heap (a     *)
(* sequence of objects, addressed by index) so that aliasing between the   *)
(* document handed to setValueAtPath and the value it returns is visible.  *)
(***************************************************************************)
EXTENDS Integers, Sequences, FiniteSets, TLC

(* ------------------------------------------------------------------ *)
(* JavaScript values                                                     *)
(* ------------------------------------------------------------------ *)

Undefined == [t |-> "undefined"]
Null == [t |-> "null"]
Num(n) == [t |-> "number", v |-> n]
Str(s) == [t |-> "string", v |-> s]
Bool(b) == [t |-> "boolean", v |-> b]
Ref(a) == [t |-> "ref", v |-> a]

\* NaN, the result of ToNumber on a non-numeric operand
NaN == [t |-> "NaN"]

Digits == <<"0", "1", "2", "3", "4", "5", "6", "7", "8", "9">>

IsDigit(c) == \E d \in 1..Len(Digits) : Digits[d] = c

DigitVal(c) == (CHOOSE d \in 1..Len(Digits) : Digits[d] = c) - 1

\* Number::toString for the non-negative integers of the model
RECURSIVE NumStr(_)
NumStr(n) ==
  IF n < Len(Digits) THEN Digits[n + 1]
  ELSE NumStr(n \div Len(Digits)) \o Digits[(n % Len(Digits)) + 1]

CharAt(s, i) == SubSeq(s, i + 1, i + 1)

AllDigits(s) == Len(s) > 0 /\ \A i \in 0..(Len(s) - 1) : IsDigit(CharAt(s, i))

\* the value of a string of decimal digits
RECURSIVE DigitsVal(_)
DigitsVal(s) ==
  IF Len(s) = 0 THEN 0
  ELSE DigitsVal(SubSeq(s, 1, Len(s) - 1)) * Len(Digits) + DigitVal(CharAt(s, Len(s) - 1))

\* an array index: a canonical numeric string ("0", "1", "12"; not "01")
IsIndexKey(k) == AllDigits(k) /\ (Len(k) = 1 \/ CharAt(k, 0) # "0")

KeyIndex(k) == DigitsVal(k)

\* ToPropertyKey: cur[seg] with a number segment uses its decimal string
ToPropertyKey(seg) == IF seg.t = "number" THEN NumStr(seg.v) ELSE seg.v

(* ------------------------------------------------------------------ *)
(* The heap: objects and arrays                                          *)
(* ------------------------------------------------------------------ *)

\* ks: the own property keys in creation order; p: their values.  An
\* array's length is held in len and is not one of ks.
EmptyObject == [array |-> FALSE, len |-> 0, ks |-> <<>>, p |-> <<>>]

EmptyArray == [array |-> TRUE, len |-> 0, ks |-> <<>>, p |-> <<>>]

EmptyHeap == <<>>

\* a new object at a fresh address
Alloc(h, o) == [h |-> Append(h, o), v |-> Ref(Len(h) + 1)]

IsArray(h, x) == x.t = "ref" /\ h[x.v].array

IsNullish(x) == x.t \in {"undefined", "null"}

HasKey(o, k) == \E i \in 1..Len(o.ks) : o.ks[i] = k

\* cur[seg] as a read, for cur neither null nor undefined
GetProp(h, x, k) ==
  IF x.t = "ref" THEN
    LET o == h[x.v] IN
    IF o.array /\ k = "length" THEN Num(o.len)
    ELSE IF HasKey(o, k) THEN o.p[k] ELSE Undefined
  ELSE IF x.t = "string" THEN
    IF k = "length" THEN Num(Len(x.v))
    ELSE IF IsIndexKey(k) /\ KeyIndex(k) < Len(x.v) THEN Str(CharAt(x.v, KeyIndex(k)))
    ELSE Undefined
  ELSE Undefined

\* an object with property k set to val (ordinary [[Set]] on an own data property)
PutKey(o, k, val) ==
  [o EXCEPT !.ks = IF HasKey(o, k) THEN o.ks ELSE Append(o.ks, k),
            !.p = (k :> val) @@ o.p]

RECURSIVE JoinStr(_, _, _)
RECURSIVE ToStr(_, _)
\* Array.prototype.join(",") from element i on
JoinStr(h, o, i) ==
  IF i >= o.len THEN ""
  ELSE LET
       x == IF HasKey(o, NumStr(i)) THEN o.p[NumStr(i)] ELSE Undefined
       s == IF IsNullish(x) THEN "" ELSE ToStr(h, x)
       IN IF i + 1 >= o.len THEN s ELSE s \o "," \o JoinStr(h, o, i + 1)

\* ToString
ToStr(h, x) ==
  CASE x.t = "undefined" -> "undefined"
    [] x.t = "null" -> "null"
    [] x.t = "number" -> NumStr(x.v)
    [] x.t = "string" -> x.v
    [] x.t = "boolean" -> IF x.v THEN "true" ELSE "false"
    [] x.t = "ref" -> IF h[x.v].array THEN JoinStr(h, h[x.v], 0) ELSE "[object Object]"

\* ToNumber, on the non-negative integers and strings of the model
StringToNumber(s) ==
  IF Len(s) = 0 THEN Num(0) ELSE IF AllDigits(s) THEN Num(DigitsVal(s)) ELSE NaN

ToNumber(h, x) ==
  CASE x.t = "undefined" -> NaN
    [] x.t = "null" -> Num(0)
    [] x.t = "number" -> x
    [] x.t = "string" -> StringToNumber(x.v)
    [] x.t = "boolean" -> IF x.v THEN Num(1) ELSE Num(0)
    [] x.t = "ref" -> StringToNumber(ToStr(h, x))

(* ------------------------------------------------------------------ *)
(* Property assignment (the module is an ES module: strict mode)         *)
(* ------------------------------------------------------------------ *)

Threw(h, msg) == [ok |-> FALSE, h |-> h, err |-> msg]

Done(h) == [ok |-> TRUE, h |-> h, err |-> ""]

\* the object without its index properties at or above n
TruncateTo(o, n) ==
  LET keep(k) == ~(IsIndexKey(k) /\ KeyIndex(k) >= n)
      ks2 == SelectSeq(o.ks, keep)
  IN [o EXCEPT !.len = n,
               !.ks = ks2,
               !.p = [k \in {ks2[i] : i \in 1..Len(ks2)} |-> o.p[k]]]

\* ArraySetLength: arr.length = val
SetLength(h, a, val) ==
  LET n == ToNumber(h, val) IN
  IF n.t = "NaN" THEN Threw(h, "Invalid array length")
  ELSE IF n.v >= h[a].len THEN Done([h EXCEPT ![a].len = n.v])
  ELSE Done([h EXCEPT ![a] = TruncateTo(h[a], n.v)])

\* cur[seg] = val
SetProp(h, x, k, val) ==
  IF IsNullish(x) THEN Threw(h, "Cannot set properties of " \o x.t)
  ELSE IF x.t # "ref" THEN Threw(h, "Cannot create property on " \o x.t)
  ELSE LET o == h[x.v] IN
    IF o.array /\ k = "length" THEN SetLength(h, x.v, val)
    ELSE IF o.array /\ IsIndexKey(k) /\ KeyIndex(k) >= o.len
      THEN Done([h EXCEPT ![x.v] = [PutKey(o, k, val) EXCEPT !.len = KeyIndex(k) + 1]])
    ELSE Done([h EXCEPT ![x.v] = PutKey(o, k, val)])

(* ------------------------------------------------------------------ *)
(* Own keys in enumeration order, and the two spreads of line 53         *)
(* ------------------------------------------------------------------ *)

RECURSIVE SortedIndexKeys(_)
\* the index keys among a set of keys, ascending
SortedIndexKeys(S) ==
  IF S = {} THEN <<>>
  ELSE LET m == CHOOSE k \in S : \A j \in S : KeyIndex(k) <= KeyIndex(j)
       IN <<m>> \o SortedIndexKeys(S \ {m})

\* OrdinaryOwnPropertyKeys: index keys ascending, then the others in creation order
OwnKeys(o) ==
  LET notIndex(k) == ~IsIndexKey(k) IN
  SortedIndexKeys({o.ks[i] : i \in {j \in 1..Len(o.ks) : IsIndexKey(o.ks[j])}})
    \o SelectSeq(o.ks, notIndex)

\* [...obj] of an array: every index below length, a hole read as undefined;
\* the array's other properties are not copied
SpreadArray(h, x) ==
  LET o == h[x.v]
      ks == [i \in 1..o.len |-> NumStr(i - 1)]
  IN [array |-> TRUE, len |-> o.len, ks |-> ks,
      p |-> [k \in {ks[i] : i \in 1..o.len} |-> GetProp(h, x, k)]]

\* {...obj}: the own enumerable properties of an object or of a string's
\* wrapper; nothing for null, undefined, numbers and booleans
SpreadObject(h, x) ==
  IF x.t = "ref" THEN
    LET o == h[x.v] ks == OwnKeys(o) IN
    [array |-> FALSE, len |-> 0, ks |-> ks,
     p |-> [k \in {ks[i] : i \in 1..Len(ks)} |-> o.p[k]]]
  ELSE IF x.t = "string" THEN
    LET ks == [i \in 1..Len(x.v) |-> NumStr(i - 1)] IN
    [array |-> FALSE, len |-> 0, ks |-> ks,
     p |-> [k \in {ks[i] : i \in 1..Len(ks)} |-> GetProp(h, x, k)]]
  ELSE EmptyObject

\* line 53: const clone = Array.isArray(obj) ? [...obj] : { ...obj }
ShallowClone(h, x) ==
  Alloc(h, IF IsArray(h, x) THEN SpreadArray(h, x) ELSE SpreadObject(h, x))

(* ------------------------------------------------------------------ *)
(* getValueAtPath and setValueAtPath                                     *)
(* ------------------------------------------------------------------ *)

RECURSIVE GetLoop(_, _, _, _)
\* lines 44-48, from segment i on
GetLoop(h, cur, path, i) ==
  IF i > Len(path) THEN cur
  ELSE IF IsNullish(cur) THEN Undefined
  ELSE GetLoop(h, GetProp(h, cur, ToPropertyKey(path[i])), path, i + 1)

\* getValueAtPath(obj, path); undefined is the absent result
getValueAtPath(h, obj, path) ==
  IF Len(path) = 0 THEN obj ELSE GetLoop(h, obj, path, 1)

\* as NewContainer, deciding by the segment being created instead of the next
NewContainerOfSegment(path, i) ==
  IF path[i].t = "number" THEN EmptyArray ELSE EmptyObject

\* as NewContainer, always making an object
NewContainerObject(path, i) == EmptyObject

\* line 62: typeof path[i + 1] === "number" ? [] : {}
NewContainer(path, i) ==
  IF path[i + 1].t = "number" THEN EmptyArray ELSE EmptyObject

\* lines 60-63: create the missing container under cur[seg]
CreateMissing(h, cur, path, i) ==
  LET k == ToPropertyKey(path[i]) IN
  IF GetProp(h, cur, k) = Undefined
    THEN LET a == Alloc(h, NewContainer(path, i)) IN SetProp(a.h, cur, k, a.v)
    ELSE Done(h)

RECURSIVE SetLoop(_, _, _, _, _)
\* lines 55-66, from segment i on: [ok, h, err]
SetLoop(h, cur, path, i, value) ==
  LET k == ToPropertyKey(path[i]) IN
  IF i = Len(path) THEN SetProp(h, cur, k, value)
  ELSE IF IsNullish(cur) THEN Threw(h, "Cannot read properties of " \o cur.t)
  ELSE LET \* line 64: cur = cur[seg], c being what lines 60-63 did
           Descend(c) ==
             IF ~c.ok THEN c
             ELSE SetLoop(c.h, GetProp(c.h, cur, k), path, i + 1, value)
       IN Descend(CreateMissing(h, cur, path, i))

\* setValueAtPath(obj, path, value): [threw, err, ret, h]; h is the heap
\* after the call, whether it returned or threw
setValueAtPath(h, obj, path, value) ==
  IF Len(path) = 0 THEN [threw |-> FALSE, err |-> "", ret |-> value, h |-> h]
  ELSE LET \* lines 54-67, r being what the loop and the last assignment did
           Walked(clone, r) ==
             [threw |-> ~r.ok, err |-> r.err,
              ret |-> IF r.ok THEN clone.v ELSE Undefined, h |-> r.h]
           Cloned(clone) == Walked(clone, SetLoop(clone.h, clone.v, path, 1, value))
       IN Cloned(ShallowClone(h, obj))

(* ------------------------------------------------------------------ *)
(* JSON values as trees, their construction in the heap, and snapshots   *)
(* ------------------------------------------------------------------ *)

\* A JSON tree: a scalar value, [t |-> "array", v |-> <<tree, ...>>] or
\* [t |-> "object", v |-> <<[k |-> key, v |-> tree], ...>>].
TArr(items) == [t |-> "array", v |-> items]

TObj(members) == [t |-> "object", v |-> members]

Member(k, x) == [k |-> k, v |-> x]

RECURSIVE Build(_, _)
RECURSIVE BuildInto(_, _, _, _, _)
\* the members of a tree from the i-th on, put into the container at ref
BuildInto(h, ref, isArr, items, i) ==
  IF i > Len(items) THEN h
  ELSE LET k == IF isArr THEN NumStr(i - 1) ELSE items[i].k
           Put(c) == BuildInto(SetProp(c.h, ref, k, c.v).h, ref, isArr, items, i + 1)
       IN Put(Build(h, IF isArr THEN items[i] ELSE items[i].v))

\* the value of a tree, its containers freshly allocated: [h, v]
Build(h, tree) ==
  IF tree.t \notin {"array", "object"} THEN [h |-> h, v |-> tree]
  ELSE LET a == Alloc(h, IF tree.t = "array" THEN EmptyArray ELSE EmptyObject)
       IN [h |-> BuildInto(a.h, a.v, tree.t = "array", tree.v, 1), v |-> a.v]

RECURSIVE Snap(_, _)
\* the deep value reachable from x: what a deep-equality comparison sees
\* (own properties whatever their order, an array's length, array-ness)
Snap(h, x) ==
  IF x.t # "ref" THEN x
  ELSE LET o == h[x.v] IN
       [t |-> "container", array |-> o.array, len |-> o.len,
        p |-> [k \in {o.ks[i] : i \in 1..Len(o.ks)} |-> Snap(h, o.p[k])]]

DeepEqual(h1, x1, h2, x2) == Snap(h1, x1) = Snap(h2, x2)

\* a snapshot is a JSON value: null, boolean, number, string, a dense array
\* carrying only its elements, or a string-keyed object, recursively
RECURSIVE WellFormed(_)
WellFormed(s) ==
  IF s.t = "container" THEN
    /\ s.array => DOMAIN s.p = {NumStr(i) : i \in 0..(s.len - 1)}
    /\ \A k \in DOMAIN s.p : WellFormed(s.p[k])
  ELSE s.t \in {"null", "boolean", "number", "string"}

(* ------------------------------------------------------------------ *)
(* JSON.stringify(value, null, 2) and JSON.parse                         *)
(* ------------------------------------------------------------------ *)

\* QuoteJSONString, for strings with no character that needs an escape
Quote(s) == "\"" \o s \o "\""

RECURSIVE Ser(_, _, _)
RECURSIVE SerItems(_, _, _, _)
RECURSIVE SerMembers(_, _, _, _, _)
\* the elements of an array from index i on, one per line; a hole or an
\* undefined element is written as null
SerItems(h, o, i, ind) ==
  LET x == IF HasKey(o, NumStr(i)) THEN o.p[NumStr(i)] ELSE Undefined
      e == ind \o (IF x = Undefined THEN "null" ELSE Ser(h, x, ind))
  IN IF i + 1 >= o.len THEN e ELSE e \o ",\n" \o SerItems(h, o, i + 1, ind)

\* the members of an object, keys ks from the i-th on, one per line
SerMembers(h, o, ks, i, ind) ==
  LET e == ind \o Quote(ks[i]) \o ": " \o Ser(h, o.p[ks[i]], ind)
  IN IF i >= Len(ks) THEN e ELSE e \o ",\n" \o SerMembers(h, o, ks, i + 1, ind)

\* SerializeJSONProperty with a gap of two spaces, at indentation ind; an
\* array's named properties and an object's undefined members are left out
Ser(h, x, ind) ==
  CASE x.t = "null" -> "null"
    [] x.t = "number" -> NumStr(x.v)
    [] x.t = "string" -> Quote(x.v)
    [] x.t = "boolean" -> IF x.v THEN "true" ELSE "false"
    [] x.t = "ref" ->
         LET o == h[x.v]
             defined(k) == o.p[k] # Undefined
             ks == SelectSeq(OwnKeys(o), defined)
         IN IF o.array
              THEN IF o.len = 0 THEN "[]"
                   ELSE "[\n" \o SerItems(h, o, 0, ind \o "  ") \o "\n" \o ind \o "]"
              ELSE IF Len(ks) = 0 THEN "{}"
                   ELSE "{\n" \o SerMembers(h, o, ks, 1, ind \o "  ") \o "\n" \o ind \o "}"

\* JSON.stringify(x, null, 2): a string, or undefined for undefined
JSONstringify(h, x) == IF x = Undefined THEN Undefined ELSE Str(Ser(h, x, ""))

\* the i-th character of a text, from 1; "" past its end
At(s, i) == IF i >= 1 /\ i <= Len(s) THEN SubSeq(s, i, i) ELSE ""

IsWs(c) == c \in {" ", "\n", "\t", "\r"}

RECURSIVE SkipWs(_, _)
SkipWs(s, i) == IF IsWs(At(s, i)) THEN SkipWs(s, i + 1) ELSE i

\* a parse step: [ok, v (a tree), i (the next position)]
ParseFail == [ok |-> FALSE, v |-> Undefined, i |-> 0]

Parsed(v, i) == [ok |-> TRUE, v |-> v, i |-> i]

ParseWord(s, i, word, v) ==
  IF i + Len(word) - 1 <= Len(s) /\ SubSeq(s, i, i + Len(word) - 1) = word
    THEN Parsed(v, i + Len(word)) ELSE ParseFail

RECURSIVE DigitsEnd(_, _)
\* the position after the run of digits at i
DigitsEnd(s, i) == IF IsDigit(At(s, i)) THEN DigitsEnd(s, i + 1) ELSE i

\* a JSON number, for the non-negative integers of the model: "0", or a
\* run of digits that does not start with 0
ParseNumber(s, i) ==
  IF At(s, i) = "0" THEN Parsed(Num(0), i + 1)
  ELSE LET j == DigitsEnd(s, i) IN Parsed(Num(DigitsVal(SubSeq(s, i, j - 1))), j)

RECURSIVE QuoteEnd(_, _)
\* the position of the quote closing the string whose text starts at i, or 0:
\* a string may hold no control character (escapes are not modelled)
QuoteEnd(s, i) ==
  IF i > Len(s) \/ At(s, i) \in {"\n", "\t", "\r", "\\"} THEN 0
  ELSE IF At(s, i) = "\"" THEN i
  ELSE QuoteEnd(s, i + 1)

\* a JSON string at i: [ok, v (the string), i]
ParseString(s, i) ==
  LET j == QuoteEnd(s, i + 1) IN
  IF At(s, i) # "\"" \/ j = 0 THEN ParseFail
  ELSE Parsed(SubSeq(s, i + 1, j - 1), j + 1)

RECURSIVE ParseValue(_, _)
RECURSIVE ParseItems(_, _, _)
RECURSIVE ParseMembers(_, _, _)
\* the elements of an array after "[" or ",", acc those read so far
ParseItems(s, i, acc) ==
  LET \* the element e has been read and the next token is at j
      AfterItem(e, j) ==
        IF At(s, j) = "," THEN ParseItems(s, j + 1, Append(acc, e.v))
        ELSE IF At(s, j) = "]" THEN Parsed(TArr(Append(acc, e.v)), j + 1)
        ELSE ParseFail
      Item(e) == IF ~e.ok THEN ParseFail ELSE AfterItem(e, SkipWs(s, e.i))
  IN Item(ParseValue(s, SkipWs(s, i)))

\* the members of an object after "{" or ",", acc those read so far
ParseMembers(s, i, acc) ==
  LET \* the member k: e has been read and the next token is at j
      AfterMember(k, e, j) ==
        IF At(s, j) = ","
          THEN ParseMembers(s, j + 1, Append(acc, Member(k.v, e.v)))
        ELSE IF At(s, j) = "}"
          THEN Parsed(TObj(Append(acc, Member(k.v, e.v))), j + 1)
        ELSE ParseFail
      MemberValue(k, e) ==
        IF ~e.ok THEN ParseFail ELSE AfterMember(k, e, SkipWs(s, e.i))
      \* the key k has been read and the next token is at c
      AfterKey(k, c) ==
        IF At(s, c) # ":" THEN ParseFail
        ELSE MemberValue(k, ParseValue(s, SkipWs(s, c + 1)))
      Key(k) == IF ~k.ok THEN ParseFail ELSE AfterKey(k, SkipWs(s, k.i))
  IN Key(ParseString(s, SkipWs(s, i)))

\* a JSON value at i
ParseValue(s, i) ==
  LET c == At(s, i) IN
  CASE c = "n" -> ParseWord(s, i, "null", Null)
    [] c = "t" -> ParseWord(s, i, "true", Bool(TRUE))
    [] c = "f" -> ParseWord(s, i, "false", Bool(FALSE))
    [] c = "\"" -> LET r == ParseString(s, i) IN
                   IF r.ok THEN Parsed(Str(r.v), r.i) ELSE ParseFail
    [] c = "[" -> IF At(s, SkipWs(s, i + 1)) = "]"
                    THEN Parsed(TArr(<<>>), SkipWs(s, i + 1) + 1)
                    ELSE ParseItems(s, i + 1, <<>>)
    [] c = "{" -> IF At(s, SkipWs(s, i + 1)) = "}"
                    THEN Parsed(TObj(<<>>), SkipWs(s, i + 1) + 1)
                    ELSE ParseMembers(s, i + 1, <<>>)
    [] IsDigit(c) -> ParseNumber(s, i)
    [] OTHER -> ParseFail

\* the tree a text stands for: [ok, v]; the whole text must be one value
ParseText(s) ==
  LET Whole(r) == IF r.ok /\ SkipWs(s, r.i) = Len(s) + 1 THEN r ELSE ParseFail
  IN Whole(ParseValue(s, SkipWs(s, 1)))

\* JSON.parse(x): x is turned into a string first (undefined reads
\* "undefined"); [ok, h, v], the value's containers freshly allocated, or a
\* SyntaxError
JSONparse(h, x) ==
  LET Made(b) == [ok |-> TRUE, h |-> b.h, v |-> b.v]
      Read(r) == IF r.ok THEN Made(Build(h, r.v))
                 ELSE [ok |-> FALSE, h |-> h, v |-> Undefined]
  IN Read(ParseText(ToStr(h, x)))

(* ------------------------------------------------------------------ *)
(* normalizeNodeData and the graph's nodes                               *)
(* ------------------------------------------------------------------ *)

\* a node row: key is a string or undefined, value a scalar, type its tag
Row(k, x, ty) == [key |-> k, value |-> x, type |-> ty]

\* if (row.key): undefined, null and the empty string are falsy
Truthy(k) == k.t = "string" /\ k.v # ""

RECURSIVE PutRows(_, _, _, _)
\* lines 16-20, from the i-th row on
PutRows(h, ref, rows, i) ==
  IF i > Len(rows) THEN h
  ELSE IF rows[i].type # "array" /\ rows[i].type # "object" /\ Truthy(rows[i].key)
    THEN PutRows(SetProp(h, ref, rows[i].key.v, rows[i].value).h, ref, rows, i + 1)
  ELSE PutRows(h, ref, rows, i + 1)

\* normalizeNodeData(nodeRows): a string
normalizeNodeData(rows) ==
  IF Len(rows) = 0 THEN Str("{}")
  ELSE IF Len(rows) = 1 /\ ~Truthy(rows[1].key) THEN Str(ToStr(EmptyHeap, rows[1].value))
  ELSE LET a == Alloc(EmptyHeap, EmptyObject)
       IN JSONstringify(PutRows(a.h, a.v, rows, 1), a.v)

\* a graph node, and the selection when no node is selected (nodeData is
\* null: nodeData?.path is undefined, nodeData?.text ?? [] is [])
Node(p, rows) == [has |-> TRUE, path |-> p, text |-> rows]

NoNode == [has |-> FALSE, path |-> <<>>, text |-> <<>>]

RECURSIVE PathItems(_, _)
\* the segments of a path from the i-th on as JSON, separated by commas
PathItems(q, i) ==
  LET e == IF q[i].t = "number" THEN NumStr(q[i].v) ELSE Quote(q[i].v)
  IN IF i >= Len(q) THEN e ELSE e \o "," \o PathItems(q, i + 1)

\* JSON.stringify(path) (lines 98 and 101)
PathJSON(q) == IF Len(q) = 0 THEN "[]" ELSE "[" \o PathItems(q, 1) \o "]"

IsContainer(tree) == tree.t \in {"array", "object"}

\* the row a member or element contributes to its node: a container is a
\* placeholder row tagged "array" or "object"
RowOf(k, tree) == Row(k, IF IsContainer(tree) THEN Null ELSE tree, tree.t)

RECURSIVE NodesAt(_, _)
\* the nodes the graph holds for the value at path q: an object is a node
\* with one row per member, a scalar that is the root or an array element is
\* a node with one keyless row, and containers contribute their own nodes
NodesAt(tree, q) ==
  IF tree.t = "object" THEN
    {Node(q, [i \in 1..Len(tree.v) |-> RowOf(Str(tree.v[i].k), tree.v[i].v)])}
      \cup UNION {NodesAt(tree.v[i].v, Append(q, Str(tree.v[i].k))) :
                    i \in {j \in 1..Len(tree.v) : IsContainer(tree.v[j].v)}}
  ELSE IF tree.t = "array" THEN
    UNION {NodesAt(tree.v[i], Append(q, Num(i - 1))) : i \in 1..Len(tree.v)}
  ELSE {Node(q, <<RowOf(Undefined, tree)>>)}

\* useGraph's nodes after setGraph(text): [ok, nodes]
GraphOf(text) ==
  LET Graph(r) == IF r.ok THEN [ok |-> TRUE, nodes |-> NodesAt(r.v, <<>>)]
                  ELSE [ok |-> FALSE, nodes |-> {}]
  IN Graph(ParseText(text))

(* ------------------------------------------------------------------ *)
(* Bounds and input domains                                              *)
(* ------------------------------------------------------------------ *)

\* the longest path handed to getValueAtPath and setValueAtPath
MaxPathLen == 3

\* array indices and object keys of paths ("length" is a key that arrays and
\* strings also answer to) and the keys of documents ("0" is a key that looks
\* like an index)
Indices == {0, 1}

PathKeys == {"a", "length"}

DocKeys == {"a", "0", "length"}

Segs == {Num(i) : i \in Indices} \cup {Str(k) : k \in PathKeys}

Paths == UNION {[1..n -> Segs] : n \in 0..MaxPathLen}

Leaves == {Null, Num(1), Str("xy")}

ArraysOver(C) ==
  {TArr(<<>>), TArr(<<Num(1), Str("xy")>>)} \cup {TArr(<<x>>) : x \in C}

ObjectsOver(C) ==
  {TObj(<<>>), TObj(<<Member("a", Num(1)), Member("0", Null)>>)}
    \cup {TObj(<<Member(k, x)>>) : k \in DocKeys, x \in C}

Level1 == ArraysOver(Leaves) \cup ObjectsOver(Leaves)

\* documents: every JSON scalar kind, flat containers, and containers nested
\* under a key or an index
Docs ==
  Leaves \cup Level1
    \cup {TObj(<<Member("a", c)>>) : c \in Level1}
    \cup {TArr(<<c>>) : c \in Level1}

\* the values written
Vals == {Null, Num(1), Str("xy"), TArr(<<>>), TObj(<<Member("a", Num(1))>>)}

(* ------------------------------------------------------------------ *)
(* Bounds and input domains of the edit session                          *)
(* ------------------------------------------------------------------ *)

\* how many times Save publishes, and how many times another party
\* replaces the live document, in one run
MaxPublishes == 1

MaxStoreChanges == 1

\* texts the document store may hold: documents, and one that does not parse
DocTexts ==
  { "{\"a\":{\"b\":1},\"c\":[1]}",
    "{\"a\":{\"b\":1},\"c\":null}",
    "{\"length\":{\"b\":1}}",
    "[1,2]",
    "{" }

\* texts the user types into the edit buffer
Buffers == {"1", "{invalid", "{\"b\": 2}"}

(* ------------------------------------------------------------------ *)
(* State                                                                 *)
(* ------------------------------------------------------------------ *)

VARIABLES
  pc,      \* which call has been made on (doc, path)
  heap,    \* the heap now
  heap0,   \* the heap when the last setValueAtPath call was entered
  doc,     \* the document: a scalar or a reference into the heap
  path,    \* the path
  val,     \* the value handed to setValueAtPath
  res,     \* what setValueAtPath did: [threw, err, ret]
  got,     \* what getValueAtPath returned
  contents,      \* the live document text (getJson(), setContents)
  hasChanges,    \* the changed flag of the last setContents
  nodes,         \* useGraph's nodes
  selectedNode,  \* useGraph's selectedNode (nodeData)
  selCurrent,    \* whether selectedNode is one of the objects in nodes
  editing,       \* React state: editing
  editValue,     \* React state: editValue (a string, or undefined)
  error,         \* React state: error (null, or a message)
  publishes,     \* how many times Save has published
  changes,       \* how many times another party has replaced the document
  last           \* the last action: [op, published, wasEditing, rebuilt]

wvars == <<pc, heap, heap0, doc, path, val, res, got>>

svars ==
  <<contents, hasChanges, nodes, selectedNode, selCurrent, editing, editValue,
    error, publishes, changes, last>>

vars == <<wvars, svars>>

NoResult == [threw |-> FALSE, err |-> "", ret |-> Undefined]

\* lines 75-80 (and 133-137, 170-174): the text of the node's value in the
\* live document, or the normalized rows when the document does not parse
Seed(text, node) ==
  LET \* r is JSON.parse(getJson())
      OfDocument(r) ==
        IF r.ok THEN JSONstringify(r.h, getValueAtPath(r.h, r.v, node.path))
        ELSE normalizeNodeData(node.text)
  IN OfDocument(JSONparse(EmptyHeap, Str(text)))

\* the session as the component is mounted: nothing selected, the effect of
\* lines 70-82 has run once
SessionStart(text) ==
  /\ contents = text
  /\ hasChanges = FALSE
  /\ nodes = GraphOf(text).nodes
  /\ selectedNode = NoNode
  /\ selCurrent = FALSE
  /\ editing = FALSE
  /\ editValue = Seed(text, NoNode)
  /\ error = Null
  /\ publishes = 0
  /\ changes = 0
  /\ last = [op |-> "mount", published |-> FALSE, wasEditing |-> FALSE,
             rebuilt |-> FALSE]

\* no call of the path functions is in progress
Idle ==
  /\ pc = "idle"
  /\ heap = EmptyHeap
  /\ heap0 = EmptyHeap
  /\ doc = Undefined
  /\ path = <<>>
  /\ val = Undefined
  /\ res = NoResult
  /\ got = Undefined

(* ------------------------------------------------------------------ *)
(* getValueAtPath and setValueAtPath called on bounded inputs            *)
(* ------------------------------------------------------------------ *)

WInit ==
  /\ pc = "ready"
  /\ \E d \in Docs :
       \E b \in {Build(EmptyHeap, d)} : heap = b.h /\ doc = b.v
  /\ heap0 = heap
  /\ path \in Paths
  /\ val = Undefined
  /\ res = NoResult
  /\ got = Undefined
  /\ SessionStart("{}")

\* resolve(doc, path)
CallResolve ==
  /\ pc = "ready"
  /\ got' = getValueAtPath(heap, doc, path)
  /\ pc' = "resolved"
  /\ UNCHANGED <<heap, heap0, doc, path, val, res, svars>>

\* write(doc, path, v) for a value v built apart from the document
CallWrite ==
  /\ pc = "ready"
  /\ \E v \in Vals :
       \E b \in {Build(heap, v)} :
         \E r \in {setValueAtPath(b.h, doc, path, b.v)} :
           /\ heap0' = b.h
           /\ val' = b.v
           /\ heap' = r.h
           /\ res' = [threw |-> r.threw, err |-> r.err, ret |-> r.ret]
  /\ pc' = "wrote"
  /\ UNCHANGED <<doc, path, got, svars>>

\* resolve(write(doc, path, v), path)
ReadBack ==
  /\ pc = "wrote"
  /\ ~res.threw
  /\ got' = getValueAtPath(heap, res.ret, path)
  /\ pc' = "readback"
  /\ UNCHANGED <<heap, heap0, doc, path, val, res, svars>>

\* write(doc, path, resolve(doc, path)), when resolve found a value
WriteBack ==
  /\ pc = "resolved"
  /\ got # Undefined
  /\ \E r \in {setValueAtPath(heap, doc, path, got)} :
       /\ heap0' = heap
       /\ val' = got
       /\ heap' = r.h
       /\ res' = [threw |-> r.threw, err |-> r.err, ret |-> r.ret]
  /\ pc' = "wroteback"
  /\ UNCHANGED <<doc, path, got, svars>>

WNext == CallResolve \/ CallWrite \/ ReadBack \/ WriteBack

SpecWrite == WInit /\ [][WNext]_vars

(* ------------------------------------------------------------------ *)
(* The edit session of NodeModal                                         *)
(* ------------------------------------------------------------------ *)

Init ==
  /\ Idle
  /\ \E text \in DocTexts : SessionStart(text)

\* the SyntaxError JSON.parse throws, as err.message
SyntaxErrorMessage == "Unexpected token in JSON"

\* as Effect, leaving the edit buffer as it is
EffectKeepsBuffer(node, text) ==
  /\ editing' = FALSE
  /\ error' = Null
  /\ editValue' = editValue

\* lines 70-82: the effect run when nodeData has changed to node, the live
\* document being text
Effect(node, text) ==
  /\ editing' = FALSE
  /\ error' = Null
  /\ editValue' = Seed(text, node)

\* the user selects a node of the graph; the effect of lines 70-82 runs
\* when nodeData is another object than before
SelectNode ==
  /\ \E n \in nodes :
       /\ ~(selCurrent /\ n = selectedNode)
       /\ selectedNode' = n
       /\ Effect(n, contents)
  /\ selCurrent' = TRUE
  /\ last' = [op |-> "select", published |-> FALSE, wasEditing |-> editing,
              rebuilt |-> FALSE]
  /\ UNCHANGED <<contents, hasChanges, nodes, publishes, changes, wvars>>

\* lines 130-140: the Edit button, shown while not editing
Edit ==
  /\ ~editing
  /\ editValue' = Seed(contents, selectedNode)
  /\ editing' = TRUE
  /\ last' = [op |-> "edit", published |-> FALSE, wasEditing |-> editing,
              rebuilt |-> FALSE]
  /\ UNCHANGED <<contents, hasChanges, nodes, selectedNode, selCurrent, error,
                 publishes, changes, wvars>>

\* line 155: the user types into the textarea, shown while editing
Type ==
  /\ editing
  /\ \E text \in Buffers : editValue' = Str(text)
  /\ last' = [op |-> "type", published |-> FALSE, wasEditing |-> editing,
              rebuilt |-> FALSE]
  /\ UNCHANGED <<contents, hasChanges, nodes, selectedNode, selCurrent, editing,
                 error, publishes, changes, wvars>>

\* as Cancel, leaving the error as it is
CancelKeepsError ==
  /\ editing
  /\ editing' = FALSE
  /\ editValue' = Seed(contents, selectedNode)
  /\ last' = [op |-> "cancel", published |-> FALSE, wasEditing |-> editing,
              rebuilt |-> FALSE]
  /\ UNCHANGED <<contents, hasChanges, nodes, selectedNode, selCurrent, error,
                 publishes, changes, wvars>>

\* lines 166-176: the Cancel button, shown while editing
Cancel ==
  /\ editing
  /\ editing' = FALSE
  /\ error' = Null
  /\ editValue' = Seed(contents, selectedNode)
  /\ last' = [op |-> "cancel", published |-> FALSE, wasEditing |-> editing,
              rebuilt |-> FALSE]
  /\ UNCHANGED <<contents, hasChanges, nodes, selectedNode, selCurrent,
                 publishes, changes, wvars>>

\* line 189: the text the Viewing branch renders for the selected node
ViewingText == normalizeNodeData(selectedNode.text)

\* lines 87-91: what handleSave computes before it publishes:
\* [ok, err, text], text being JSON.stringify(updated, null, 2)
SaveResult(buffer, text, node) ==
  LET Caught(msg) == [ok |-> FALSE, err |-> msg, text |-> ""]
      \* lines 90-91, u being what setValueAtPath did
      Updated(u) ==
        IF u.threw THEN Caught(u.err)
        ELSE [ok |-> TRUE, err |-> "", text |-> Ser(u.h, u.ret, "")]
      \* lines 88-90, w being JSON.parse(getJson())
      Working(pn, w) ==
        IF ~w.ok THEN Caught(SyntaxErrorMessage)
        ELSE Updated(setValueAtPath(w.h, w.v, node.path, pn.v))
      \* line 87, pn being JSON.parse(editValue)
      ParsedNew(pn) ==
        IF ~pn.ok THEN Caught(SyntaxErrorMessage)
        ELSE Working(pn, JSONparse(pn.h, Str(text)))
  IN ParsedNew(JSONparse(EmptyHeap, buffer))

\* as FoundNodes, taking a node of the rebuilt graph whatever its path
FoundNodesAnyPath(ns, node) == IF node.has THEN ns ELSE {}

\* lines 98-101: the node of the rebuilt graph at the saved node's path
FoundNodes(ns, node) ==
  IF node.has THEN {n \in ns : PathJSON(n.path) = PathJSON(node.path)} ELSE {}

\* as SaveFails, closing the editor as a save that went through does
SaveFailsToViewing(r) ==
  /\ ~r.ok
  /\ error' = Str(r.err)
  /\ editing' = FALSE
  /\ last' = [op |-> "save", published |-> FALSE, wasEditing |-> editing,
              rebuilt |-> FALSE]
  /\ UNCHANGED <<contents, hasChanges, nodes, selectedNode, selCurrent,
                 editValue, publishes, changes>>

\* as SaveFails, the document having been marked changed before the parse
SaveFailsMarksChanged(r) ==
  /\ ~r.ok
  /\ error' = Str(r.err)
  /\ hasChanges' = TRUE
  /\ last' = [op |-> "save", published |-> FALSE, wasEditing |-> editing,
              rebuilt |-> FALSE]
  /\ UNCHANGED <<contents, nodes, selectedNode, selCurrent, editing,
                 editValue, publishes, changes>>

\* lines 110-111: handleSave caught an error
SaveFails(r) ==
  /\ ~r.ok
  /\ error' = Str(r.err)
  /\ last' = [op |-> "save", published |-> FALSE, wasEditing |-> editing,
              rebuilt |-> FALSE]
  /\ UNCHANGED <<contents, hasChanges, nodes, selectedNode, selCurrent, editing,
                 editValue, publishes, changes>>

\* lines 93-109: handleSave publishes, rebuilds the graph (setGraph may
\* throw, which is ignored) and reselects the node at the saved path; a new
\* selection runs the effect of lines 70-82
SavePublishes(r) ==
  /\ r.ok
  /\ publishes < MaxPublishes
  /\ contents' = r.text
  /\ hasChanges' = TRUE
  /\ publishes' = publishes + 1
  /\ UNCHANGED changes
  /\ \E rebuilt \in BOOLEAN :
       \E ns \in {IF rebuilt THEN GraphOf(r.text).nodes ELSE nodes} :
         \E found \in {IF rebuilt THEN FoundNodes(ns, selectedNode) ELSE {}} :
           /\ last' = [op |-> "save", published |-> TRUE, wasEditing |-> editing,
                       rebuilt |-> rebuilt]
           /\ nodes' = ns
           /\ IF found # {}
                THEN \E n \in found :
                       /\ selectedNode' = n
                       /\ selCurrent' = TRUE
                       /\ Effect(n, r.text)
                ELSE /\ selectedNode' = selectedNode
                     /\ selCurrent' = (selCurrent /\ ~rebuilt)
                     /\ editing' = FALSE
                     /\ error' = Null
                     /\ editValue' = editValue

\* lines 84-113: the Save button, shown while editing
HandleSave ==
  /\ editing
  /\ \E r \in {SaveResult(editValue, contents, selectedNode)} :
       SaveFails(r) \/ SavePublishes(r)
  /\ UNCHANGED wvars

\* another party replaces the live document; the graph follows a document
\* that parses, and the selection stays as it is
StoreChange ==
  /\ changes < MaxStoreChanges
  /\ \E text \in DocTexts :
       \E g \in {GraphOf(text)} :
         /\ text # contents
         /\ contents' = text
         /\ nodes' = IF g.ok THEN g.nodes ELSE nodes
         /\ selCurrent' = (selCurrent /\ ~g.ok)
  /\ changes' = changes + 1
  /\ last' = [op |-> "store", published |-> FALSE, wasEditing |-> editing,
              rebuilt |-> FALSE]
  /\ UNCHANGED <<hasChanges, selectedNode, editing, editValue, error, publishes, wvars>>

Next == SelectNode \/ Edit \/ Type \/ Cancel \/ HandleSave \/ StoreChange

Spec == Init /\ [][Next]_vars

(* ------------------------------------------------------------------ *)
(* normalizeNodeData and jsonPathToString rendered for a bounded node    *)
(* ------------------------------------------------------------------ *)

RECURSIVE JoinSegments(_, _)
\* line 27-28: the rendered segments from the i-th on, joined by "]["
JoinSegments(q, i) ==
  LET e == IF q[i].t = "number" THEN NumStr(q[i].v) ELSE "\"" \o q[i].v \o "\""
  IN IF i >= Len(q) THEN e ELSE e \o "][" \o JoinSegments(q, i + 1)

\* as jsonPathToString, without the guard for the empty path
jsonPathToStringUnguarded(q) ==
  "$[" \o (IF Len(q) = 0 THEN "" ELSE JoinSegments(q, 1)) \o "]"

\* jsonPathToString(path); an absent path is the empty path of the model
jsonPathToString(q) ==
  IF Len(q) = 0 THEN "$" ELSE "$[" \o JoinSegments(q, 1) \o "]"

\* the longest row list
MaxRows == 2

\* row keys: absent, empty, plain and integer-like
RowKeys == {Undefined, Str(""), Str("a"), Str("b"), Str("0")}

\* row values with their type tags; a container row is a placeholder
RowValues ==
  { [value |-> Num(42), type |-> "number"],
    [value |-> Str("xy"), type |-> "string"],
    [value |-> Bool(TRUE), type |-> "boolean"],
    [value |-> Null, type |-> "null"],
    [value |-> Null, type |-> "array"],
    [value |-> Null, type |-> "object"] }

Rows == {Row(k, x.value, x.type) : k \in RowKeys, x \in RowValues}

RowLists == UNION {[1..n -> Rows] : n \in 0..MaxRows}

\* path keys to render: plain, and with characters an escape would change
FormatKeys == {"a", "it\"em", "b[1]"}

FormatSegs == {Num(i) : i \in {0, 12}} \cup {Str(k) : k \in FormatKeys}

FormatPaths == UNION {[1..n -> FormatSegs] : n \in 0..MaxPathLen}

\* a node with bounded rows, or with a bounded path, is the selection
RInit ==
  /\ pc = "node"
  /\ heap = EmptyHeap
  /\ heap0 = EmptyHeap
  /\ doc = Undefined
  /\ path = <<>>
  /\ val = Undefined
  /\ res = NoResult
  /\ got = Undefined
  /\ contents = "{}"
  /\ hasChanges = FALSE
  /\ nodes = {}
  /\ \/ \E rows \in RowLists : selectedNode = Node(<<>>, rows)
     \/ \E q \in FormatPaths : selectedNode = Node(q, <<>>)
  /\ selCurrent = FALSE
  /\ editing = FALSE
  /\ editValue = Undefined
  /\ error = Null
  /\ publishes = 0
  /\ changes = 0
  /\ last = [op |-> "mount", published |-> FALSE, wasEditing |-> FALSE,
             rebuilt |-> FALSE]

\* line 189: normalizeNodeData(nodeData?.text ?? [])
RenderContent ==
  /\ pc = "node"
  /\ got' = normalizeNodeData(selectedNode.text)
  /\ pc' = "content"
  /\ UNCHANGED <<heap, heap0, doc, path, val, res, svars>>

\* line 203: jsonPathToString(nodeData?.path)
RenderPath ==
  /\ pc = "node"
  /\ got' = Str(jsonPathToString(selectedNode.path))
  /\ pc' = "path"
  /\ UNCHANGED <<heap, heap0, doc, path, val, res, svars>>

RNext == RenderContent \/ RenderPath

SpecRender == RInit /\ [][RNext]_vars

(* ------------------------------------------------------------------ *)
(* Properties of getValueAtPath and setValueAtPath                       *)
(* ------------------------------------------------------------------ *)

Wrote == pc \in {"wrote", "wroteback"}

\* the document as it was when the call was entered, and as it is now
DocBefore == Snap(heap0, doc)

DocNow == Snap(heap, doc)

\* paths as locations: segments compared as the property keys they address
KeyPath(q) == [i \in 1..Len(q) |-> ToPropertyKey(q[i])]

IsPrefix(a, b) == Len(a) <= Len(b) /\ SubSeq(b, 1, Len(a)) = a

\* q is not on, at or below the path p
OffPath(q, p) ==
  ~IsPrefix(KeyPath(q), KeyPath(p)) /\ ~IsPrefix(KeyPath(p), KeyPath(q))

\* what the first i segments of the path resolved to before the call
Before(i) == getValueAtPath(heap0, doc, SubSeq(path, 1, i))

\* what the first i segments of the path resolve to in the returned document
After(i) == getValueAtPath(heap, res.ret, SubSeq(path, 1, i))

\* C1: write never mutates its input: once write(D, P, V) has returned, D
\* and every container nested in it is deep-equal to its pre-call snapshot.
C1_WriteNeverMutatesInput ==
  (Wrote /\ ~res.threw) => DocNow = DocBefore

\* C2: write-then-read fidelity: for all D, P and V, write(D, P, V) yields a
\* document and resolve of it at P deep-equals V.
C2_WriteThenRead ==
  /\ pc = "wrote" => ~res.threw
  /\ pc = "readback" => Snap(heap, got) = Snap(heap0, val)

\* C3: no-op round trip: when resolve(D, P) is defined,
\* write(D, P, resolve(D, P)) yields a document deep-equal to D.
C3_NoOpRoundTrip ==
  pc = "wroteback" => ~res.threw /\ Snap(heap, res.ret) = DocBefore

\* q addresses a location of the document at root: every segment is applied
\* to a container of its kind (an index to an array, a key to an object) or
\* to nothing
Fits(h, root, q) ==
  \A i \in 1..Len(q) :
    LET c == getValueAtPath(h, root, SubSeq(q, 1, i - 1)) IN
    \/ IsNullish(c)
    \/ q[i].t = "number" /\ IsArray(h, c)
    \/ q[i].t = "string" /\ c.t = "ref" /\ ~IsArray(h, c)

\* C4: write changes only the target path: when write(D, P, V) returns R for
\* a non-empty P, every location Q that is neither on, at nor below P
\* resolves in R to the value it has in D, and is absent in R exactly when it
\* is absent in D.  Q ranges over the locations of D and R (Fits), so that no
\* difference rests on what resolve answers to a mismatched segment (C10).
C4_OnlyTargetChanges ==
  (pc = "wrote" /\ ~res.threw /\ Len(path) > 0) =>
    \A q \in Paths :
      (OffPath(q, path) /\ Fits(heap0, doc, q) /\ Fits(heap, res.ret, q)) =>
        Snap(heap, getValueAtPath(heap, res.ret, q))
          = Snap(heap0, getValueAtPath(heap0, doc, q))

C8_ResultWellFormed ==
  (pc = "wrote" /\ ~res.threw) => WellFormed(Snap(heap, res.ret))

\* the first non-final segment whose location is missing in a container of D
MissingAt(i) ==
  /\ i \in 1..(Len(path) - 1)
  /\ Before(i - 1).t = "ref"
  /\ Before(i) = Undefined

\* the container write made for segment j: an array exactly when the next
\* segment is a number, holding nothing but what the next segment addresses
CreatedByNext(j) ==
  LET c == Snap(heap, After(j)) IN
  /\ c.t = "container"
  /\ c.array = (path[j + 1].t = "number")
  /\ DOMAIN c.p = {ToPropertyKey(path[j + 1])}

\* write(tree, p, v) on a heap of its own, as a snapshot
WriteOf(tree, p, v) ==
  LET d == Build(EmptyHeap, tree)
      x == Build(d.h, v)
      r == setValueAtPath(x.h, d.v, p, x.v)
  IN IF r.threw THEN Undefined ELSE Snap(r.h, r.ret)

SnapOf(tree) == LET d == Build(EmptyHeap, tree) IN Snap(d.h, d.v)

Cur(i) == getValueAtPath(heap, doc, SubSeq(path, 1, i - 1))

\* segment i does not fit the kind of value it is applied to
Mismatch(i) ==
  LET c == Cur(i) IN
  \/ path[i].t = "string" /\ (IsArray(heap, c) \/ c.t = "string")
  \/ path[i].t = "number" /\ c.t = "ref" /\ ~IsArray(heap, c)
  \/ c.t \in {"null", "number", "boolean", "string"}

\* C10: resolve treats a segment/value-kind mismatch as not found: if some
\* step applies a string key to an array or a string, an integer to an
\* object, or any segment to a scalar, resolve(D, P) is absent.
C10_MismatchIsAbsent ==
  (pc = "resolved" /\ \E i \in 1..Len(path) : Mismatch(i)) => got = Undefined

(* ------------------------------------------------------------------ *)
(* Properties of the edit session                                        *)
(* ------------------------------------------------------------------ *)

\* x, a string or undefined, is JSON text to JSON.parse
ValidJSON(x) == ParseText(ToStr(EmptyHeap, x)).ok

\* this step is a Save made while editing
SaveStep == editing /\ last'.op = "save"

\* C5: Save with a parse failure is rejected without effect: when Save is
\* invoked in Editing and the edit buffer or the live document text is not
\* valid JSON, the session stays in Editing, holds a non-empty error
\* message, publishes nothing (the live document text is unchanged) and
\* leaves the selected node unchanged.
C5_ParseFailureRejected ==
  [][(SaveStep /\ (~ValidJSON(editValue) \/ ~ValidJSON(Str(contents)))) =>
       /\ editing'
       /\ error'.t = "string" /\ error'.v # ""
       /\ ~last'.published
       /\ contents' = contents /\ hasChanges' = hasChanges
       /\ publishes' = publishes
       /\ selectedNode' = selectedNode /\ selCurrent' = selCurrent]_vars

\* C5 witness: Save has just been rejected for the buffer "{invalid", the
\* live document being valid JSON
C5_Witness ==
  /\ last.op = "save" /\ ~last.published
  /\ editing
  /\ editValue = Str("{invalid")
  /\ ValidJSON(Str(contents))
  /\ error # Null

\* JSON.stringify(write(parsed live document, node path, parsed buffer)),
\* undefined when write does not return
SavedText ==
  LET pn == JSONparse(EmptyHeap, editValue)
      w == JSONparse(pn.h, Str(contents))
      u == setValueAtPath(w.h, w.v, selectedNode.path, pn.v)
  IN IF u.threw THEN Undefined ELSE JSONstringify(u.h, u.ret)

\* C6: Save with parseable inputs always publishes: whenever Save is invoked
\* in Editing and both the edit buffer and the live document text parse as
\* JSON, the serialization of write(parsed live document, selected node's
\* path, parsed buffer) becomes the live document with the changed flag set,
\* and the session moves to Viewing, whatever the document and the path.
C6_ParseableSavePublishes ==
  [][(SaveStep /\ ValidJSON(editValue) /\ ValidJSON(Str(contents))) =>
       /\ last'.published
       /\ Str(contents') = SavedText
       /\ hasChanges'
       /\ ~editing']_vars

\* getValueAtPath(JSON.parse(text), node.path): [parses, h, v]; v is
\* undefined when the path resolves to nothing
LiveValue(text, node) ==
  LET Of(r) ==
        IF r.ok
          THEN [parses |-> TRUE, h |-> r.h, v |-> getValueAtPath(r.h, r.v, node.path)]
          ELSE [parses |-> FALSE, h |-> EmptyHeap, v |-> Undefined]
  IN Of(JSONparse(EmptyHeap, Str(text)))

\* the last step seeded the edit buffer for the selected node
JustSeeded == last.op \in {"select", "edit", "cancel"}

\* C11: a resolution miss falls back to row normalization: whenever the live
\* document parses but the selected node's path resolves to nothing in it,
\* the text seeded by node selection, by Edit and by Cancel is
\* normalize(node rows), a defined text.
C11_MissFallsBackToRows ==
  (/\ JustSeeded
   /\ LiveValue(contents, selectedNode).parses
   /\ LiveValue(contents, selectedNode).v = Undefined)
    => /\ editValue.t = "string"
       /\ editValue = normalizeNodeData(selectedNode.text)

\* C12: Viewing shows the live value: whenever the session is in Viewing, the
\* live document parses and the node's path resolves, the text displayed for
\* the node is the serialization of resolve(live document, node path),
\* nested containers included; normalize(node rows) is displayed only when
\* parsing or resolution fails.
C12_ViewingShowsLiveValue ==
  (/\ ~editing
   /\ selectedNode.has
   /\ LiveValue(contents, selectedNode).parses
   /\ LiveValue(contents, selectedNode).v # Undefined)
    => ViewingText = JSONstringify(LiveValue(contents, selectedNode).h,
                                   LiveValue(contents, selectedNode).v)

\* the text of the node's value in the live document, or the normalized
\* rows when the document does not parse: nothing of it comes from the buffer
FreshText(text, node) ==
  LET Of(live) == IF live.parses THEN JSONstringify(live.h, live.v)
                  ELSE normalizeNodeData(node.text)
  IN Of(LiveValue(text, node))

\* C13: no carry-over of an abandoned edit: if the selected node changes
\* while the session is in Editing, the session moves to Viewing, the error
\* is cleared and the edit buffer is re-seeded from the new node; afterwards
\* the buffer changes only by typing or by being seeded again, and Editing is
\* entered only with a freshly seeded buffer, so a Save writes at the new
\* node's path only a seeded text or a text typed since.
C13_NoCarryOver ==
  [][/\ (editing /\ last'.op = "select") => (~editing' /\ error' = Null)
     /\ (\/ editing /\ last'.op = "select"
         \/ editValue' # editValue /\ last'.op # "type"
         \/ ~editing /\ editing') =>
          editValue' = FreshText(contents', selectedNode')]_vars

\* C13 witness: another node has just been selected while the session was
\* in Editing with a typed buffer that is not the new node's text
C13_Witness ==
  /\ last.op = "select" /\ last.wasEditing
  /\ ~editing
  /\ error = Null
  /\ editValue # Str("{\"b\": 2}")
  /\ selectedNode.has

\* this step is a Save that published
PublishStep == editing /\ last'.op = "save" /\ last'.published

\* C14: post-save reselection is non-fatal and path-preserving: after a
\* successful Save, a node of the rebuilt graph whose path equals the saved
\* node's path becomes the selection; if there is none, or rebuilding the
\* graph failed, the selection is left unchanged; in every case the document
\* published by that Save stays published, the session ends in Viewing with
\* no error, and the selected node's path is what it was before Save.
C14_ReselectionKeepsPath ==
  [][PublishStep =>
       /\ Str(contents') = SavedText /\ hasChanges'
       /\ ~editing' /\ error' = Null
       /\ selectedNode'.path = selectedNode.path
       /\ IF /\ last'.rebuilt
             /\ selectedNode.has
             /\ \E n \in GraphOf(contents').nodes : n.path = selectedNode.path
            THEN /\ selectedNode' \in GraphOf(contents').nodes
                 /\ selCurrent'
            ELSE selectedNode' = selectedNode]_vars

\* C14 witness: a Save has published, the graph was rebuilt and the node at
\* the saved path, whose rows now differ, has become the selection
C14_Witness ==
  /\ last.op = "save" /\ last.published /\ last.rebuilt
  /\ selectedNode.has /\ selCurrent
  /\ selectedNode \in nodes
  /\ Len(selectedNode.path) > 0
  /\ ~editing /\ error = Null

(* ------------------------------------------------------------------ *)
(* Properties of normalizeNodeData and jsonPathToString                  *)
(* ------------------------------------------------------------------ *)

\* the rows of the rendered node
TheRows == selectedNode.text

\* a row with no key, and a row that stands for a nested container
Keyless(row) == row.key = Undefined

ContainerRow(row) == row.type \in {"array", "object"}

RECURSIVE MappingOf(_, _, _)
\* the mapping of the keyed scalar rows from the i-th on, added to acc: a
\* sequence of [k, v], keys in order of first appearance
MappingOf(rows, i, acc) ==
  IF i > Len(rows) THEN acc
  ELSE IF Keyless(rows[i]) \/ ContainerRow(rows[i]) THEN MappingOf(rows, i + 1, acc)
  ELSE IF \E j \in 1..Len(acc) : acc[j].k = rows[i].key.v
    THEN MappingOf(rows, i + 1,
           [j \in 1..Len(acc) |->
              IF acc[j].k = rows[i].key.v THEN Member(acc[j].k, rows[i].value)
              ELSE acc[j]])
  ELSE MappingOf(rows, i + 1, Append(acc, Member(rows[i].key.v, rows[i].value)))

\* the JSON text of a scalar
ScalarText(x) ==
  CASE x.t = "null" -> "null"
    [] x.t = "number" -> NumStr(x.v)
    [] x.t = "boolean" -> (IF x.v THEN "true" ELSE "false")
    [] x.t = "string" -> "\"" \o x.v \o "\""

RECURSIVE MappingLines(_, _)
MappingLines(ms, i) ==
  LET e == "  \"" \o ms[i].k \o "\": " \o ScalarText(ms[i].v)
  IN IF i >= Len(ms) THEN e ELSE e \o ",\n" \o MappingLines(ms, i + 1)

\* a mapping of scalars as JSON text indented by two spaces
MappingText(ms) ==
  IF Len(ms) = 0 THEN "{}" ELSE "{\n" \o MappingLines(ms, 1) \o "\n}"

\* C15: normalize on a row list that is not empty and not a single keyless
\* row returns the indented JSON text of the mapping holding exactly the rows
\* that have a key and whose type is neither "array" nor "object", each
\* mapped to its value, keys in order of first appearance; every keyed
\* scalar row is included whatever its key, the empty-string key too.
C15_NormalizeKeyedScalars ==
  (/\ pc = "content"
   /\ Len(TheRows) > 0
   /\ ~(Len(TheRows) = 1 /\ Keyless(TheRows[1])))
    => got = Str(MappingText(MappingOf(TheRows, 1, <<>>)))

\* C16: normalize on exactly one row with no key returns the row's value as
\* JSON text: for a number, boolean, null or string value it is a text that
\* parses as JSON back to the value (a string is rendered quoted); and
\* normalize([]) is "{}".
C16_SingleKeylessRowIsJSON ==
  /\ (pc = "content" /\ Len(TheRows) = 0) => got = Str("{}")
  /\ (/\ pc = "content"
      /\ Len(TheRows) = 1
      /\ Keyless(TheRows[1])
      /\ ~ContainerRow(TheRows[1]))
       => /\ got.t = "string"
          /\ ParseText(got.v).ok
          /\ ParseText(got.v).v = TheRows[1].value

\* the bracketed group of one segment
GroupOf(seg) ==
  IF seg.t = "number" THEN "[" \o NumStr(seg.v) \o "]"
  ELSE "[\"" \o seg.v \o "\"]"

RECURSIVE GroupsFrom(_, _)
\* the groups of the segments from the i-th on, one after the other
GroupsFrom(q, i) ==
  IF i > Len(q) THEN "" ELSE GroupOf(q[i]) \o GroupsFrom(q, i + 1)

\* how many characters of s are c
Count(s, c) == Cardinality({i \in 1..Len(s) : At(s, i) = c})

RECURSIVE KeyBrackets(_, _)
\* how many "[" the string segments from the i-th on hold themselves
KeyBrackets(q, i) ==
  IF i > Len(q) THEN 0
  ELSE (IF q[i].t = "string" THEN Count(q[i].v, "[") ELSE 0) + KeyBrackets(q, i + 1)

\* C17: format is total and renders a path as the root "$" followed, for
\* each segment in order, by [n] for an integer segment and ["key"] for a
\* string segment, the key copied unescaped; the empty path renders as
\* exactly "$", and the output has one bracketed group per segment (its
\* opening brackets are those of the groups and those inside the keys).
C17_FormatRendersGroups ==
  pc = "path" =>
    /\ got = Str("$" \o GroupsFrom(selectedNode.path, 1))
    /\ Len(selectedNode.path) = 0 => got = Str("$")
    /\ Count(got.v, "[")
         = Len(selectedNode.path) + KeyBrackets(selectedNode.path, 1)

\* C17 witness: a path of an integer and a key holding a quote was rendered
C17_Witness ==
  /\ pc = "path"
  /\ selectedNode.path = <<Str("it\"em"), Num(12)>>
  /\ got = Str("$[\"it\"em\"][12]")

\* C18: no stale error on entering Editing: in every reachable state in
\* which the session is in Viewing the held error is empty, so right after
\* every Viewing -> Editing transition the session is in Editing with no
\* error shown.
C18_NoStaleError ==
  /\ ~editing => error = Null
  /\ last.op = "edit" => (editing /\ error = Null)

\* C18 witness: Edit has just been pressed after a Save that published and a
\* change of the live document by another party
C18_Witness ==
  /\ last.op = "edit" /\ ~last.wasEditing
  /\ editing /\ error = Null
  /\ publishes >= 1 /\ changes >= 1

\* C19: only a successful Save changes the live document: node selection,
\* Edit, typing, Cancel and a failed Save leave the live document text and
\* its changed flag as they were, a Save publishes at most once, and the
\* session moves from Editing to Viewing through Save only in a step in
\* which a publish occurred.
C19_OnlySaveChangesDocument ==
  [][/\ (\/ last'.op \in {"select", "edit", "type", "cancel"}
         \/ last'.op = "save" /\ publishes' = publishes) =>
          (contents' = contents /\ hasChanges' = hasChanges)
     /\ publishes' \in {publishes, publishes + 1}
     /\ (editing /\ ~editing' /\ last'.op = "save") =>
          /\ publishes' = publishes + 1
          /\ Str(contents') = SavedText
          /\ hasChanges']_vars

\* C19 witness: a Save has just failed after an earlier Save had published
C19_Witness ==
  /\ last.op = "save" /\ ~last.published
  /\ editing
  /\ publishes >= 1 /\ hasChanges

\* locations looked at in the documents before and after a Save
SavedLocations ==
  UNION {[1..n -> {Num(0), Num(1), Str("a"), Str("b"), Str("c"), Str("length")}] :
           n \in 1..2}

\* every location off the path p holds in the document of text after what
\* it holds in the document of text before
OffPathKept(before, after, p) ==
  \A d \in {JSONparse(EmptyHeap, Str(before))} :
    \A r \in {JSONparse(EmptyHeap, Str(after))} :
      /\ d.ok /\ r.ok
      /\ \A q \in SavedLocations :
           (OffPath(q, p) /\ Fits(d.h, d.v, q) /\ Fits(r.h, r.v, q)) =>
             Snap(r.h, getValueAtPath(r.h, r.v, q))
               = Snap(d.h, getValueAtPath(d.h, d.v, q))

\* C20: Save applies the edit to the live document as read at Save time: if
\* another party has replaced the live document since Edit, the document
\* Save publishes is write(that newer document, node path, parsed buffer),
\* so that every location off the node's path holds in the published
\* document what the other party left there.
C20_SaveKeepsOthersChanges ==
  [][(PublishStep /\ changes >= 1) =>
       /\ Str(contents') = SavedText
       /\ OffPathKept(contents, contents', selectedNode.path)]_vars

====
